---- MODULE Spec2Model ----
(***************************************************************************)
(* The agent-side web shell of ping_benchmark.py (PingBenchmark): the      *)
(* registry shell_sessions, the Socket.IO event handlers, the per-session  *)
(* reader thread _shell_read_worker and the teardown _close_shell_session, *)
(* together with the operating-system state they act on (descriptor table, *)
(* child processes, pseudo-terminals) and the link to the control server;   *)
(* and the two background workers of the same class: heartbeat_worker and  *)
(* command_polling_worker, with their start and stop methods.              *)
(***************************************************************************)
EXTENDS Integers, Sequences, FiniteSets, TLC

\* ---------------------------------------------------------------- bounds
MaxOpens == 2        \* shell_open events handled
MaxFaults == 1       \* operating-system failures injected (fork, fcntl, thread start)
MaxConnects == 1     \* connections established to the control server
MaxInputs == 1       \* shell_input events that reach a registered session
MaxNoops == 1        \* inbound events handled that name no registered session
MaxOut == 1          \* bytes a child writes to its terminal
PtyCap == 1          \* bytes the terminal's input queue holds before a write blocks
MaxWorkers == 2      \* worker threads of one kind that are ever started
MaxCalls == 3        \* calls of the workers' start and stop methods
MaxCommands == 1     \* polls of one worker that return a command

\* ------------------------------------------------------ program constants
UShortMax == 65535   \* range of struct format 'H' in _set_pty_size
ReadChunk == 4096    \* os.read(fd, 4096) in _shell_read_worker
DefaultRows == 24    \* data.get('rows', 24)
DefaultCols == 80    \* data.get('cols', 80)

SessionIds == {"s1", "s2"}
Pids == 1..MaxOpens
Fds == 1..MaxOpens
NoPid == 0           \* no process: the pid os.waitpid(pid, WNOHANG) returns for none
NoFd == NoPid        \* no descriptor

\* (rows, cols) pairs a shell_open or shell_resize may carry
DimPairs == {<<DefaultRows, DefaultCols>>, <<UShortMax + 1, DefaultCols>>}

TT == <<"T", 0>>     \* the Socket.IO thread that runs the inbound event handlers
DT == <<"D", 0>>     \* the thread that runs the disconnect handler
RT(p) == <<"R", p>>  \* the reader thread started by the open that forked pid p
MT == <<"M", 0>>     \* the main thread, which runs run_continuous and its shutdown
Threads == {TT, DT, MT} \cup {RT(p) : p \in Pids}

\* ------------------------------------------------------------ sequences
RECURSIVE Flatten(_)
Flatten(ss) == IF ss = <<>> THEN <<>> ELSE Head(ss) \o Flatten(Tail(ss))

RECURSIVE IsSubseq(_, _)
IsSubseq(a, b) ==
    IF a = <<>> THEN TRUE
    ELSE IF b = <<>> THEN FALSE
    ELSE IF Head(a) = Head(b) THEN IsSubseq(Tail(a), Tail(b))
    ELSE IsSubseq(a, Tail(b))

Take(s, n) == SubSeq(s, 1, n)
Drop(s, n) == SubSeq(s, n + 1, Len(s))
Min(a, b) == IF a < b THEN a ELSE b
Count(s, x) == Cardinality({i \in 1..Len(s) : s[i] = x})

\* --------------------------------------------------------------- base64
\* A base64 text is a sequence of sextets 0..63, with 64 standing for '='.
B64Pad == 64

RECURSIVE B64Encode(_)
B64Encode(bs) ==
    IF bs = <<>> THEN <<>>
    ELSE IF Len(bs) = 1 THEN
        <<bs[1] \div 4, (bs[1] % 4) * 16, B64Pad, B64Pad>>
    ELSE IF Len(bs) = 2 THEN
        <<bs[1] \div 4, (bs[1] % 4) * 16 + bs[2] \div 16, (bs[2] % 16) * 4, B64Pad>>
    ELSE
        <<bs[1] \div 4, (bs[1] % 4) * 16 + bs[2] \div 16,
          (bs[2] % 16) * 4 + bs[3] \div 64, bs[3] % 64>> \o B64Encode(Drop(bs, 3))

\* The bytes of one quad of sextets; the pad may only end the quad.
B64Quad(q) ==
    IF q[3] = B64Pad /\ q[4] = B64Pad THEN <<q[1] * 4 + q[2] \div 16>>
    ELSE IF q[4] = B64Pad THEN
        <<q[1] * 4 + q[2] \div 16, (q[2] % 16) * 16 + q[3] \div 4>>
    ELSE <<q[1] * 4 + q[2] \div 16, (q[2] % 16) * 16 + q[3] \div 4,
           (q[3] % 4) * 64 + q[4]>>

RECURSIVE B64Bytes(_)
B64Bytes(t) == IF t = <<>> THEN <<>> ELSE B64Quad(Take(t, 4)) \o B64Bytes(Drop(t, 4))

\* base64.b64decode: binascii.Error ("Incorrect padding") unless the text is whole quads.
B64Ok(t) == Len(t) % 4 = 0
B64Decode(t) == IF B64Ok(t) THEN B64Bytes(t) ELSE <<>>

\* input payloads the server may send: two encoded byte strings, the empty
\* default of data.get('input', ''), and a text that is no whole quad
Payloads == {B64Encode(<<65>>), B64Encode(<<66, 67>>), <<>>, <<16>>}

\* ------------------------------------------------------------- registry
\* shell_sessions is a Python dict: a mapping that keeps insertion order.
\* It is modelled as the sequence of its items, each carrying its key.
Keys(reg) == [i \in 1..Len(reg) |-> reg[i].sid]
Has(reg, s) == \E i \in 1..Len(reg) : reg[i].sid = s
Get(reg, s) == reg[CHOOSE i \in 1..Len(reg) : reg[i].sid = s]
\* d[s] = e: an existing key keeps its place and takes the new value
Put(reg, s, e) ==
    IF Has(reg, s) THEN [i \in 1..Len(reg) |-> IF reg[i].sid = s THEN e ELSE reg[i]]
    ELSE Append(reg, e)
\* a pop that clears the whole mapping
WithoutAll(reg, s) == <<>>
\* a pop that reads the entry and leaves it in the mapping
WithoutKeeps(reg, s) == reg
\* d.pop(s, None): the mapping without the key
Without(reg, s) == SelectSeq(reg, LAMBDA e : e.sid # s)
Entry(s, f, p, r, c) == [sid |-> s, fd |-> f, pid |-> p, rows |-> r, cols |-> c]
RegPids(reg) == {reg[i].pid : i \in 1..Len(reg)}
RegFds(reg) == {reg[i].fd : i \in 1..Len(reg)}

\* ------------------------------------------------------------ workers
Kinds == {"heartbeat", "command_polling"}
Workers(k) == {<<k, i>> : i \in 1..MaxWorkers}     \* the threads that run <k>_worker
AllWorkers == Workers("heartbeat") \cup Workers("command_polling")
Callers == {<<"main", 1>>, <<"main", 2>>}          \* threads that call start and stop
NoThread == <<"None", 0>>

\* the commands a poll may return, and the value that stands for None
Commands == {[command_id |-> "c1", command_uuid |-> "u1", timeout |-> 60],
             [command_id |-> "c2", command_uuid |-> "u2", timeout |-> 5]}
NoCommand == [command_id |-> "", command_uuid |-> "", timeout |-> 0]
\* a 'command' of the response that is no dict
JunkCommand == [command_id |-> "?", command_uuid |-> "?", timeout |-> 0]
NoResult == [exit_code |-> 0]

VARIABLES
    shell_sessions,   \* self.shell_sessions
    shell_connected,  \* self.shell_connected
    sio,              \* self.sio: "None" or "Client"
    pc,               \* where each thread stands
    loc,              \* each thread's local variables
    conn,             \* the link to the control server: "up" or "down"
    fdtab,            \* descriptor -> pid of the child whose terminal it is open on, or NoPid
    proc,             \* pid -> "none", "alive", "exited", "killed" (both zombies), "reaped"
    sig,              \* pid -> last signal sent to the living child: "none", "term", "kill"
    winsz,            \* pid -> window size of that child's terminal
    ptyin,            \* pid -> bytes the terminal has accepted from its master side
    inq,              \* pid -> bytes of ptyin the child has not read yet
    ptyout,           \* pid -> bytes the child wrote that no one has read from the master
    produced,         \* pid -> number of bytes the child has written
    emitted,          \* the events sio.emit has accepted, in order
    raised,           \* handlers that an exception has left: <<thread, what>>
    tdlog,            \* pid -> teardown operations performed for it, in order
    hist,             \* history: counters and the sessions' past
    discDone,         \* the disconnect handler has returned and no connect followed
    running,          \* self.heartbeat_running, self.command_polling_running
    thread,           \* self.heartbeat_thread, self.command_polling_thread
    wpc,              \* where each worker thread and each caller of start/stop stands
    wloc,             \* their local variables
    whist             \* history of the workers

\* the web shell's variables
svars == <<shell_sessions, shell_connected, sio, pc, loc, conn, fdtab, proc, sig, winsz,
           ptyin, inq, ptyout, produced, emitted, raised, tdlog, hist, discDone>>
\* the workers' variables
wvars == <<running, thread, wpc, wloc, whist>>

vars == <<svars, wvars>>

\* what is outside the threads' own frames and the history
world == <<shell_sessions, shell_connected, sio, conn, fdtab, proc, sig, winsz,
           ptyin, inq, ptyout, produced, emitted, raised, tdlog>>

NoWLoc == [kind |-> "none", command |-> NoCommand, outcome |-> "none", result |-> NoResult]

NoLoc == [sid |-> "none", rows |-> 0, cols |-> 0, fd |-> NoFd, pid |-> NoPid,
          data |-> <<>>, todo |-> <<>>, ret |-> "none", cfd |-> NoFd, cpid |-> NoPid,
          call |-> 0, code |-> 0]

Init ==
    /\ shell_sessions = <<>>
    /\ shell_connected = FALSE
    /\ sio = "None"
    /\ pc = [t \in Threads |-> IF t \in {TT, DT, MT} THEN "idle" ELSE "none"]
    /\ loc = [t \in Threads |-> NoLoc]
    /\ conn = "down"
    /\ fdtab = [f \in Fds |-> NoPid]
    /\ proc = [p \in Pids |-> "none"]
    /\ sig = [p \in Pids |-> "none"]
    /\ winsz = [p \in Pids |-> <<0, 0>>]
    /\ ptyin = [p \in Pids |-> <<>>]
    /\ inq = [p \in Pids |-> 0]
    /\ ptyout = [p \in Pids |-> <<>>]
    /\ produced = [p \in Pids |-> 0]
    /\ emitted = <<>>
    /\ raised = {}
    /\ tdlog = [p \in Pids |-> <<>>]
    /\ hist = [nopens |-> 0, nforks |-> 0, nfaults |-> 0, nconn |-> 0, ninputs |-> 0,
               nnoop |-> 0, sessOf |-> [p \in Pids |-> "none"], running |-> {},
               ended |-> {}, replaced |-> {}, popper |-> [p \in Pids |-> "none"],
               opendone |-> {}, inreq |-> [p \in Pids |-> <<>>],
               rdlog |-> [s \in SessionIds |-> <<>>],
               started |-> FALSE, pending |-> FALSE, reg |-> "none"]
    /\ discDone = FALSE
    /\ running = [k \in Kinds |-> FALSE]
    /\ thread = [k \in Kinds |-> NoThread]
    /\ wpc = [t \in Callers \cup AllWorkers |-> IF t \in Callers THEN "idle" ELSE "none"]
    /\ wloc = [t \in Callers \cup AllWorkers |-> NoWLoc]
    /\ whist = [ncalls |-> 0, cleared |-> [k \in Kinds |-> 0], stopreq |-> {},
                lastfail |-> [w \in AllWorkers |-> FALSE],
                cmdlog |-> [w \in Workers("command_polling") |-> <<>>]]

\* ------------------------------------------------------------- helpers
Ev(name, s, code, data, call) ==
    [ev |-> name, sid |-> s, code |-> code, data |-> data, call |-> call]

\* What a call of self.sio.emit can do: AttributeError when self.sio is None;
\* on a link that is down the Socket.IO client either raises (the namespace
\* is not connected) or accepts the packet, depending on the library build.
EmitOutcomes ==
    IF sio = "None" THEN {"raise"}
    ELSE IF conn = "up" THEN {"ok"}
    ELSE {"raise", "ok"}

\* a guard that tests the client object only
MayEmitIgnoresFlag == sio # "None"
\* the guard `if self.sio and self.shell_connected` of the reader
MayEmit == sio # "None" /\ shell_connected

LowestFreeFd == CHOOSE f \in Fds : fdtab[f] = NoPid /\ \A g \in Fds : fdtab[g] = NoPid => f <= g

\* struct.pack('HHHH', rows, cols, 0, 0) raises struct.error outside 0..65535
PackOk(rows, cols) == rows \in 0..UShortMax /\ cols \in 0..UShortMax

\* _set_pty_size(fd, rows, cols): every exception is caught and printed
SetPtySize(w, fd, rows, cols) ==
    IF PackOk(rows, cols) /\ fd # NoFd /\ fdtab[fd] # NoPid
    THEN [w EXCEPT ![fdtab[fd]] = <<rows, cols>>]
    ELSE w

CanFault == hist.nfaults < MaxFaults
Faulted == [hist EXCEPT !.nfaults = @ + 1]

Goto(t, where) == pc' = [pc EXCEPT ![t] = where]
\* a handler returns: its frame is gone
Return(t, where) == /\ pc' = [pc EXCEPT ![t] = where]
                    /\ loc' = [loc EXCEPT ![t] = NoLoc]

\* --------------------------------------------------- _open_shell_session
\* on_shell_open, up to pty.fork(): the event arrives on a link that is up.
OnShellOpen(s, rows, cols, ok) ==
    /\ pc[TT] = "idle" /\ conn = "up"
    /\ hist.nopens < MaxOpens
    /\ IF ok
       THEN LET p == hist.nforks + 1
                f == LowestFreeFd
            IN /\ proc' = [proc EXCEPT ![p] = "alive"]
               /\ fdtab' = [fdtab EXCEPT ![f] = p]
               /\ loc' = [loc EXCEPT ![TT] = [NoLoc EXCEPT !.sid = s, !.rows = rows,
                              !.cols = cols, !.fd = f, !.pid = p, !.call = hist.nopens + 1]]
               /\ hist' = [hist EXCEPT !.nopens = @ + 1, !.nforks = @ + 1]
               /\ Goto(TT, "o_register")
       ELSE /\ CanFault
            /\ loc' = [loc EXCEPT ![TT] = [NoLoc EXCEPT !.sid = s, !.rows = rows,
                              !.cols = cols, !.call = hist.nopens + 1]]
            /\ hist' = [Faulted EXCEPT !.nopens = @ + 1]
            /\ Goto(TT, "o_except")
            /\ UNCHANGED <<proc, fdtab>>
    /\ UNCHANGED <<wvars, shell_sessions, shell_connected, sio, conn, sig, winsz, ptyin, inq,
                   ptyout, produced, emitted, raised, tdlog, discDone>>

\* fcntl(F_GETFL/F_SETFL), _set_pty_size, shell_sessions[session_id] = {...}
OpenRegister(ok) ==
    /\ pc[TT] = "o_register"
    /\ LET l == loc[TT] IN
       IF ok
       THEN /\ winsz' = SetPtySize(winsz, l.fd, l.rows, l.cols)
            /\ shell_sessions' = Put(shell_sessions, l.sid,
                                     Entry(l.sid, l.fd, l.pid, l.rows, l.cols))
            /\ hist' = [hist EXCEPT !.sessOf[l.pid] = l.sid,
                   !.replaced = IF Has(shell_sessions, l.sid)
                                THEN @ \cup {Get(shell_sessions, l.sid).pid} ELSE @]
            /\ Goto(TT, "o_ready")
       ELSE /\ CanFault
            /\ hist' = Faulted
            /\ Goto(TT, "o_except")
            /\ UNCHANGED <<winsz, shell_sessions>>
    /\ UNCHANGED <<wvars, shell_connected, sio, loc, conn, fdtab, proc, sig, ptyin, inq,
                   ptyout, produced, emitted, raised, tdlog, discDone>>

\* self.sio.emit('shell_ready', ...)
OpenEmitReady(out) ==
    /\ pc[TT] = "o_ready"
    /\ out \in EmitOutcomes
    /\ IF out = "ok"
       THEN /\ emitted' = Append(emitted, Ev("shell_ready", loc[TT].sid, 0, <<>>, loc[TT].call))
            /\ Goto(TT, "o_thread")
       ELSE /\ Goto(TT, "o_except")
            /\ UNCHANGED emitted
    /\ UNCHANGED <<wvars, shell_sessions, shell_connected, sio, loc, conn, fdtab, proc, sig, winsz,
                   ptyin, inq, ptyout, produced, raised, tdlog, hist, discDone>>

\* threading.Thread(target=self._shell_read_worker, args=(session_id,)).start()
OpenStartThread(ok) ==
    /\ pc[TT] = "o_thread"
    /\ IF ok
       THEN /\ pc' = [pc EXCEPT ![TT] = "idle", ![RT(loc[TT].pid)] = "r_get"]
            /\ loc' = [loc EXCEPT ![TT] = NoLoc,
                                  ![RT(loc[TT].pid)] = [NoLoc EXCEPT !.sid = loc[TT].sid]]
            /\ hist' = [hist EXCEPT !.opendone = @ \cup {loc[TT].call},
                                    !.running = @ \cup {loc[TT].pid}]
       ELSE /\ CanFault
            /\ hist' = Faulted
            /\ Goto(TT, "o_except")
            /\ UNCHANGED loc
    /\ UNCHANGED <<wvars, shell_sessions, shell_connected, sio, conn, fdtab, proc, sig, winsz,
                   ptyin, inq, ptyout, produced, emitted, raised, tdlog, discDone>>

\* except Exception: self.sio.emit('shell_client_exit', {..., 'exit_code': -1})
OpenExcept(out) ==
    /\ pc[TT] = "o_except"
    /\ out \in EmitOutcomes
    /\ IF out = "ok"
       THEN /\ emitted' = Append(emitted,
                                 Ev("shell_client_exit", loc[TT].sid, -1, <<>>, loc[TT].call))
            /\ UNCHANGED raised
       ELSE /\ raised' = raised \cup {<<TT, "open">>}
            /\ UNCHANGED emitted
    /\ hist' = [hist EXCEPT !.opendone = @ \cup {loc[TT].call}]
    /\ Return(TT, "idle")
    /\ UNCHANGED <<wvars, shell_sessions, shell_connected, sio, conn, fdtab, proc, sig, winsz,
                   ptyin, inq, ptyout, produced, tdlog, discDone>>

\* -------------------------------------------------- _close_shell_session
\* The caller's frame once _close_shell_session has returned to `ret`.
AfterClose(l, ret) ==
    IF ret \in {"idle", "r_done"} THEN NoLoc
    ELSE [l EXCEPT !.cfd = NoFd, !.cpid = NoPid, !.ret = "none"]

\* a lookup without a default, which raises KeyError for a missing id
NotFoundRaises(t) == raised \cup {<<t, "KeyError">>}
\* `if not session: return`: a lookup that finds no session raises nothing
NotFound(t) == raised

\* session = self.shell_sessions.pop(session_id, None); if not session: return
\* One dict operation, atomic between threads. `l` is the caller's frame and
\* `h` the history the caller has written.
PopSession(t, l, h, s, ret) ==
    IF Has(shell_sessions, s)
    THEN LET e == Get(shell_sessions, s) IN
         /\ shell_sessions' = Without(shell_sessions, s)
         /\ loc' = [loc EXCEPT ![t] = [l EXCEPT !.cfd = e.fd, !.cpid = e.pid, !.ret = ret]]
         /\ tdlog' = [tdlog EXCEPT ![e.pid] = Append(@, "pop")]
         /\ hist' = [h EXCEPT !.popper[e.pid] = t[1]]
         /\ Goto(t, "c_closefd")
         /\ UNCHANGED raised
    ELSE /\ loc' = [loc EXCEPT ![t] = AfterClose(l, ret)]
         /\ hist' = h
         /\ raised' = NotFound(t)
         /\ Goto(t, ret)
         /\ UNCHANGED <<shell_sessions, tdlog>>

\* os.close(session['fd']), any exception swallowed
CloseFd(t) ==
    /\ pc[t] = "c_closefd"
    /\ fdtab' = [fdtab EXCEPT ![loc[t].cfd] = NoPid]
    /\ tdlog' = [tdlog EXCEPT ![loc[t].cpid] = Append(@, "close")]
    /\ Goto(t, "c_term")
    /\ UNCHANGED <<wvars, shell_sessions, shell_connected, sio, loc, conn, proc, sig, winsz,
                   ptyin, inq, ptyout, produced, emitted, raised, hist, discDone>>

\* a pid the kernel still knows: a living child or a zombie
Exists(p) == proc[p] \in {"alive", "exited", "killed"}
Signalled(p, how) == IF proc[p] = "alive" THEN [sig EXCEPT ![p] = how] ELSE sig

\* os.kill(pid, SIGTERM): ProcessLookupError for a reaped pid leaves the outer
\* try, which skips the SIGKILL and the waitpid
SendTerm(t) ==
    /\ pc[t] = "c_term"
    /\ LET p == loc[t].cpid IN
       IF Exists(p)
       THEN /\ sig' = Signalled(p, "term")
            /\ tdlog' = [tdlog EXCEPT ![p] = Append(@, "term")]
            /\ Goto(t, "c_kill")
            /\ UNCHANGED loc
       ELSE /\ loc' = [loc EXCEPT ![t] = AfterClose(loc[t], loc[t].ret)]
            /\ Goto(t, loc[t].ret)
            /\ UNCHANGED <<sig, tdlog>>
    /\ UNCHANGED <<wvars, shell_sessions, shell_connected, sio, conn, fdtab, proc, winsz,
                   ptyin, inq, ptyout, produced, emitted, raised, hist, discDone>>

\* time.sleep(0.1); os.kill(pid, SIGKILL), any exception swallowed
SendKill(t) ==
    /\ pc[t] = "c_kill"
    /\ LET p == loc[t].cpid IN
       IF Exists(p)
       THEN /\ sig' = Signalled(p, "kill")
            /\ tdlog' = [tdlog EXCEPT ![p] = Append(@, "kill")]
       ELSE UNCHANGED <<sig, tdlog>>
    /\ Goto(t, "c_reap")
    /\ UNCHANGED <<wvars, shell_sessions, shell_connected, sio, loc, conn, fdtab, proc, winsz,
                   ptyin, inq, ptyout, produced, emitted, raised, hist, discDone>>

\* os.waitpid(pid, os.WNOHANG), any exception swallowed: reaps a zombie,
\* returns (0, 0) for a child that has not died yet
Reap(t) ==
    /\ pc[t] = "c_reap"
    /\ LET p == loc[t].cpid IN
       IF proc[p] \in {"exited", "killed"}
       THEN /\ proc' = [proc EXCEPT ![p] = "reaped"]
            /\ tdlog' = [tdlog EXCEPT ![p] = Append(@, "reap")]
       ELSE UNCHANGED <<proc, tdlog>>
    /\ loc' = [loc EXCEPT ![t] = AfterClose(loc[t], loc[t].ret)]
    /\ Goto(t, loc[t].ret)
    /\ UNCHANGED <<wvars, shell_sessions, shell_connected, sio, conn, fdtab, sig, winsz,
                   ptyin, inq, ptyout, produced, emitted, raised, hist, discDone>>

\* on_shell_close: _close_shell_session(session_id). `n` is what a close
\* that finds no session adds to the history's count of such events (0 or 1).
OnShellClose(s, n) ==
    /\ pc[TT] = "idle" /\ conn = "up"
    /\ Has(shell_sessions, s) \/ n = 0 \/ hist.nnoop < MaxNoops
    /\ PopSession(TT, loc[TT],
                  [hist EXCEPT !.ended = @ \cup {p \in hist.running : hist.sessOf[p] = s},
                               !.nnoop = IF Has(shell_sessions, s) THEN @ ELSE @ + n],
                  s, "idle")
    /\ UNCHANGED <<wvars, shell_connected, sio, conn, fdtab, proc, sig, winsz,
                   ptyin, inq, ptyout, produced, emitted, discDone>>

\* ------------------------------------------------------ the child process
\* The child ends: on its own, or by the signal it was sent.
ChildDies(p) ==
    /\ proc[p] = "alive"
    /\ proc' = [proc EXCEPT ![p] = IF sig[p] = "none" THEN "exited" ELSE "killed"]
    /\ hist' = [hist EXCEPT !.ended = IF sig[p] = "none" /\ p \in hist.running
                                      THEN @ \cup {p} ELSE @]
    /\ UNCHANGED <<wvars, shell_sessions, shell_connected, sio, pc, loc, conn, fdtab, sig, winsz,
                   ptyin, inq, ptyout, produced, emitted, raised, tdlog, discDone>>

\* The child writes one byte to its terminal; byte k of pid p is 16 * p + k.
ChildWrites(p) ==
    /\ proc[p] = "alive"
    /\ produced[p] < MaxOut
    /\ produced' = [produced EXCEPT ![p] = @ + 1]
    /\ ptyout' = [ptyout EXCEPT ![p] = Append(@, 16 * p + produced[p])]
    /\ UNCHANGED <<wvars, shell_sessions, shell_connected, sio, pc, loc, conn, fdtab, proc, sig,
                   winsz, ptyin, inq, emitted, raised, tdlog, hist, discDone>>

\* The child reads what is queued on its terminal.
ChildReads(p) ==
    /\ proc[p] = "alive"
    /\ inq[p] > 0
    /\ inq' = [inq EXCEPT ![p] = 0]
    /\ UNCHANGED <<wvars, shell_sessions, shell_connected, sio, pc, loc, conn, fdtab, proc, sig,
                   winsz, ptyin, ptyout, produced, emitted, raised, tdlog, hist, discDone>>

\* ------------------------------------------------- _handle_shell_input
\* session = self.shell_sessions.get(session_id); if not session: return
OnShellInput(s, text) ==
    /\ pc[TT] = "idle" /\ conn = "up"
    /\ IF Has(shell_sessions, s)
       THEN LET e == Get(shell_sessions, s) IN
            /\ hist.ninputs < MaxInputs
            /\ loc' = [loc EXCEPT ![TT] = [NoLoc EXCEPT !.sid = s, !.fd = e.fd,
                                                        !.pid = e.pid, !.data = text]]
            /\ hist' = [hist EXCEPT !.ninputs = @ + 1,
                                    !.inreq[e.pid] = @ \o B64Decode(text)]
            /\ Goto(TT, "i_write")
            /\ UNCHANGED raised
       ELSE /\ hist.nnoop < MaxNoops
            /\ hist' = [hist EXCEPT !.nnoop = @ + 1]
            /\ raised' = NotFound(TT)
            /\ UNCHANGED <<pc, loc>>
    /\ UNCHANGED <<wvars, shell_sessions, shell_connected, sio, conn, fdtab, proc, sig, winsz,
                   ptyin, inq, ptyout, produced, emitted, tdlog, discDone>>

\* os.write(fd, data) on the non-blocking descriptor: the number of bytes the
\* terminal's input queue takes; BlockingIOError when it takes none, OSError
\* when the descriptor is closed (both caught by the handler).
Accepted(fd, data) ==
    IF fdtab[fd] = NoPid THEN 0
    ELSE Min(Len(data), PtyCap - inq[fdtab[fd]])

\* data = base64.b64decode(input_data); os.write(session['fd'], data)
InputWrite ==
    /\ pc[TT] = "i_write"
    /\ LET fd == loc[TT].fd
           data == B64Decode(loc[TT].data)
           n == Accepted(fd, data)
       IN IF B64Ok(loc[TT].data) /\ n > 0
          THEN /\ ptyin' = [ptyin EXCEPT ![fdtab[fd]] = @ \o Take(data, n)]
               /\ inq' = [inq EXCEPT ![fdtab[fd]] = @ + n]
          ELSE UNCHANGED <<ptyin, inq>>
    /\ Return(TT, "idle")
    /\ UNCHANGED <<wvars, shell_sessions, shell_connected, sio, conn, fdtab, proc, sig, winsz,
                   ptyout, produced, emitted, raised, tdlog, hist, discDone>>

\* ---------------------------------------------------------- _resize_shell
\* session = get(session_id); if not session: return; session['rows'] = rows;
\* session['cols'] = cols
OnShellResize(s, rows, cols) ==
    /\ pc[TT] = "idle" /\ conn = "up"
    /\ IF Has(shell_sessions, s)
       THEN LET e == Get(shell_sessions, s) IN
            /\ shell_sessions' = Put(shell_sessions, s, [e EXCEPT !.rows = rows, !.cols = cols])
            /\ loc' = [loc EXCEPT ![TT] = [NoLoc EXCEPT !.sid = s, !.fd = e.fd, !.pid = e.pid,
                                                        !.rows = rows, !.cols = cols]]
            /\ Goto(TT, "z_ioctl")
            /\ UNCHANGED <<raised, hist>>
       ELSE /\ hist.nnoop < MaxNoops
            /\ hist' = [hist EXCEPT !.nnoop = @ + 1]
            /\ raised' = NotFound(TT)
            /\ UNCHANGED <<shell_sessions, pc, loc>>
    /\ UNCHANGED <<wvars, shell_connected, sio, conn, fdtab, proc, sig, winsz, ptyin, inq,
                   ptyout, produced, emitted, tdlog, discDone>>

\* self._set_pty_size(session['fd'], rows, cols)
ResizeIoctl ==
    /\ pc[TT] = "z_ioctl"
    /\ winsz' = SetPtySize(winsz, loc[TT].fd, loc[TT].rows, loc[TT].cols)
    /\ Return(TT, "idle")
    /\ UNCHANGED <<wvars, shell_sessions, shell_connected, sio, conn, fdtab, proc, sig,
                   ptyin, inq, ptyout, produced, emitted, raised, tdlog, hist, discDone>>

\* ------------------------------------------------------------ the link
\* the main thread has left the loop of run_continuous (KeyboardInterrupt)
ShuttingDown == pc[MT] \notin {"idle", "m_start_poll", "m_run"}

\* start_shell_client runs once (run_continuous starts it in a thread):
\* self.sio = socketio.Client(...), the handlers are set up. The connect
\* attempt that follows is pending.
ClientCreate ==
    /\ sio = "None" /\ ~hist.started
    /\ sio' = "Client"
    /\ hist' = [hist EXCEPT !.started = TRUE, !.pending = TRUE]
    /\ UNCHANGED <<wvars, shell_sessions, shell_connected, pc, loc, conn, fdtab, proc, sig,
                   winsz, ptyin, inq, ptyout, produced, emitted, raised, tdlog, discDone>>

\* The connection is established: by the pending self.sio.connect(...), or
\* by the client reconnecting after a disconnect that was not asked for. The
\* connect handler sets shell_connected and emits shell_register_client
\* through self.sio (AttributeError if that has been set to None meanwhile).
\* hist.reg is the server's answer to the registration on this connection.
Connect ==
    /\ conn = "down"
    /\ pc[TT] = "idle" /\ pc[DT] = "idle"
    /\ hist.pending \/ (discDone /\ sio = "Client" /\ ~ShuttingDown)
    /\ hist.nconn < MaxConnects
    /\ conn' = "up"
    /\ shell_connected' = TRUE
    /\ IF sio = "Client"
       THEN /\ emitted' = Append(emitted, Ev("shell_register_client", "none", 0, <<>>, 0))
            /\ UNCHANGED raised
       ELSE /\ raised' = raised \cup {<<TT, "connect">>}
            /\ UNCHANGED emitted
    /\ hist' = [hist EXCEPT !.nconn = @ + 1, !.pending = FALSE, !.reg = "none"]
    /\ discDone' = FALSE
    /\ UNCHANGED <<wvars, shell_sessions, sio, pc, loc, fdtab, proc, sig, winsz, ptyin, inq,
                   ptyout, produced, tdlog>>

\* self.sio.connect raises (the server cannot be reached): except Exception:
\* print; self.sio = None. start_shell_client returns.
ConnectFail ==
    /\ conn = "down"
    /\ hist.pending
    /\ sio' = "None"
    /\ hist' = [hist EXCEPT !.pending = FALSE]
    /\ UNCHANGED <<wvars, shell_sessions, shell_connected, pc, loc, conn, fdtab, proc, sig,
                   winsz, ptyin, inq, ptyout, produced, emitted, raised, tdlog, discDone>>

\* on_shell_registered(data): prints, changes nothing of the agent
OnShellRegistered ==
    /\ pc[TT] = "idle" /\ conn = "up"
    /\ hist.reg = "none"
    /\ hist' = [hist EXCEPT !.reg = "registered"]
    /\ UNCHANGED <<wvars, world, pc, loc, discDone>>

\* on_shell_error(data): prints, changes nothing of the agent
OnShellError ==
    /\ pc[TT] = "idle" /\ conn = "up"
    /\ hist.reg = "none"
    /\ hist' = [hist EXCEPT !.reg = "error"]
    /\ UNCHANGED <<wvars, world, pc, loc, discDone>>

\* The link drops; the client calls the disconnect handler on its own thread
\* while a handler of the event thread may still be running.
ConnDrop ==
    /\ conn = "up"
    /\ pc[DT] = "idle"
    /\ conn' = "down"
    /\ Goto(DT, "d_start")
    /\ UNCHANGED <<wvars, shell_sessions, shell_connected, sio, loc, fdtab, proc, sig, winsz,
                   ptyin, inq, ptyout, produced, emitted, raised, tdlog, hist, discDone>>

\* disconnect(): self.shell_connected = False; list(self.shell_sessions.keys())
DisconnectStart ==
    /\ pc[DT] = "d_start"
    /\ shell_connected' = FALSE
    /\ loc' = [loc EXCEPT ![DT] = [NoLoc EXCEPT !.todo = Keys(shell_sessions)]]
    /\ hist' = [hist EXCEPT !.ended = @ \cup (RegPids(shell_sessions) \cap hist.running)]
    /\ Goto(DT, "d_loop")
    /\ UNCHANGED <<wvars, shell_sessions, sio, conn, fdtab, proc, sig, winsz, ptyin, inq,
                   ptyout, produced, emitted, raised, tdlog, discDone>>

\* for session_id in <the list>: self._close_shell_session(session_id)
DisconnectLoop ==
    /\ pc[DT] = "d_loop"
    /\ IF loc[DT].todo = <<>>
       THEN /\ Return(DT, "idle")
            /\ discDone' = TRUE
            /\ UNCHANGED <<shell_sessions, tdlog, hist, raised>>
       ELSE /\ PopSession(DT, [loc[DT] EXCEPT !.todo = Tail(@)], hist,
                          Head(loc[DT].todo), "d_loop")
            /\ UNCHANGED discDone
    /\ UNCHANGED <<wvars, shell_connected, sio, conn, fdtab, proc, sig, winsz, ptyin, inq,
                   ptyout, produced, emitted>>

\* ----------------------------------------------------- _shell_read_worker
Readers == {RT(p) : p \in Pids}

\* session = self.shell_sessions.get(session_id); if not session: return;
\* fd = session['fd']; pid = session['pid']
ReaderGet(t) ==
    /\ pc[t] = "r_get"
    /\ IF Has(shell_sessions, loc[t].sid)
       THEN LET e == Get(shell_sessions, loc[t].sid) IN
            /\ loc' = [loc EXCEPT ![t].fd = e.fd, ![t].pid = e.pid]
            /\ Goto(t, "r_loop")
       ELSE Return(t, "r_done")
    /\ UNCHANGED <<wvars, shell_sessions, shell_connected, sio, conn, fdtab, proc, sig, winsz,
                   ptyin, inq, ptyout, produced, emitted, raised, tdlog, hist, discDone>>

\* while session_id in self.shell_sessions: os.waitpid(pid, os.WNOHANG)
ReaderLoop(t) ==
    /\ pc[t] = "r_loop"
    /\ LET p == loc[t].pid IN
       IF ~Has(shell_sessions, loc[t].sid)
       THEN /\ Goto(t, "r_finally")
            /\ UNCHANGED <<shell_sessions, loc, proc, tdlog, hist, raised>>
       ELSE IF proc[p] \in {"exited", "killed"}
       THEN \* wpid != 0: the child is reaped here; WEXITSTATUS or -1
            /\ proc' = [proc EXCEPT ![p] = "reaped"]
            /\ loc' = [loc EXCEPT ![t].code = IF proc[p] = "exited" THEN 0 ELSE -1]
            /\ Goto(t, "r_exit")
            /\ UNCHANGED <<shell_sessions, tdlog, hist, raised>>
       ELSE IF proc[p] = "alive"
       THEN /\ Goto(t, "r_select")
            /\ UNCHANGED <<shell_sessions, loc, proc, tdlog, hist, raised>>
       ELSE \* ChildProcessError: _close_shell_session(session_id); return
            /\ PopSession(t, loc[t], hist, loc[t].sid, "r_finally")
            /\ UNCHANGED proc
    /\ UNCHANGED <<wvars, shell_connected, sio, conn, fdtab, sig, winsz, ptyin, inq,
                   ptyout, produced, emitted, discDone>>

\* if self.sio and self.shell_connected: self.sio.emit('shell_client_exit', ...)
\* An exception of emit is caught by the outer except, then the finally runs.
ReaderExitEmit(t, out) ==
    /\ pc[t] = "r_exit"
    /\ IF ~MayEmit
       THEN /\ out = "ok"
            /\ Goto(t, "r_exitclose")
            /\ UNCHANGED emitted
       ELSE /\ out \in EmitOutcomes
            /\ IF out = "ok"
               THEN /\ emitted' = Append(emitted,
                                  Ev("shell_client_exit", loc[t].sid, loc[t].code, <<>>, 0))
                    /\ Goto(t, "r_exitclose")
               ELSE /\ Goto(t, "r_finally")
                    /\ UNCHANGED emitted
    /\ UNCHANGED <<wvars, shell_sessions, shell_connected, sio, loc, conn, fdtab, proc, sig, winsz,
                   ptyin, inq, ptyout, produced, raised, tdlog, hist, discDone>>

\* self._close_shell_session(session_id); return  (the finally follows)
ReaderExitClose(t) ==
    /\ pc[t] = "r_exitclose"
    /\ PopSession(t, loc[t], hist, loc[t].sid, "r_finally")
    /\ UNCHANGED <<wvars, shell_connected, sio, conn, fdtab, proc, sig, winsz, ptyin, inq,
                   ptyout, produced, emitted, discDone>>

\* select.select([fd], [], [], 0.1); data = os.read(fd, 4096)
\* OSError (descriptor closed, or EIO once the child is gone) breaks the loop.
ReaderSelect(t) ==
    /\ pc[t] = "r_select"
    /\ LET fd == loc[t].fd
           q == fdtab[fd]
       IN IF q = NoPid
          THEN /\ Goto(t, "r_finally")
               /\ UNCHANGED <<loc, ptyout, hist>>
          ELSE IF ptyout[q] # <<>>
          THEN LET n == Min(Len(ptyout[q]), ReadChunk) IN
               /\ loc' = [loc EXCEPT ![t].data = Take(ptyout[q], n)]
               /\ ptyout' = [ptyout EXCEPT ![q] = Drop(@, n)]
               /\ hist' = [hist EXCEPT !.rdlog[loc[t].sid] = @ \o Take(ptyout[q], n)]
               /\ Goto(t, "r_emit")
          ELSE IF proc[q] # "alive"
          THEN /\ Goto(t, "r_finally")
               /\ UNCHANGED <<loc, ptyout, hist>>
          ELSE \* the wait timed out
               /\ Goto(t, "r_loop")
               /\ UNCHANGED <<loc, ptyout, hist>>
    /\ UNCHANGED <<wvars, shell_sessions, shell_connected, sio, conn, fdtab, proc, sig, winsz,
                   ptyin, inq, produced, emitted, raised, tdlog, discDone>>

\* self.sio.emit('shell_output', {..., 'output': base64.b64encode(data)})
ReaderEmit(t, out) ==
    /\ pc[t] = "r_emit"
    /\ IF ~MayEmit
       THEN /\ out = "ok"
            /\ Goto(t, "r_loop")
            /\ UNCHANGED emitted
       ELSE /\ out \in EmitOutcomes
            /\ IF out = "ok"
               THEN /\ emitted' = Append(emitted,
                           Ev("shell_output", loc[t].sid, 0, B64Encode(loc[t].data), 0))
                    /\ Goto(t, "r_loop")
               ELSE /\ Goto(t, "r_finally")
                    /\ UNCHANGED emitted
    /\ loc' = [loc EXCEPT ![t].data = <<>>]
    /\ UNCHANGED <<wvars, shell_sessions, shell_connected, sio, conn, fdtab, proc, sig, winsz,
                   ptyin, inq, ptyout, produced, raised, tdlog, hist, discDone>>

\* finally: self._close_shell_session(session_id)
ReaderFinally(t) ==
    /\ pc[t] = "r_finally"
    /\ PopSession(t, loc[t], hist, loc[t].sid, "r_done")
    /\ UNCHANGED <<wvars, shell_connected, sio, conn, fdtab, proc, sig, winsz, ptyin, inq,
                   ptyout, produced, emitted, discDone>>

\* --------------------------------------------- start and stop of a worker
Alive(w) == wpc[w] \notin {"none", "w_done"}
Started(k) == {w \in Workers(k) : wpc[w] # "none"}
WGoto(t, where) == wpc' = [wpc EXCEPT ![t] = where]
Called == [whist EXCEPT !.ncalls = @ + 1]

\* start_heartbeat / start_command_polling, a server and a key being
\* configured: if self.<k>_running: return
StartWorker(m, k) ==
    /\ wpc[m] = "idle"
    /\ whist.ncalls < MaxCalls
    /\ Cardinality(Started(k))
         + Cardinality({c \in Callers : wpc[c] = "s_start" /\ wloc[c].kind = k}) < MaxWorkers
    /\ IF running[k]
       THEN UNCHANGED <<wpc, wloc>>
       ELSE /\ WGoto(m, "s_start")
            /\ wloc' = [wloc EXCEPT ![m].kind = k]
    /\ whist' = Called
    /\ UNCHANGED <<svars, running, thread>>

\* self.<k>_running = True; self.<k>_thread = threading.Thread(target=
\* self.<k>_worker, daemon=True); self.<k>_thread.start()
StartThread(m) ==
    /\ wpc[m] = "s_start"
    /\ LET k == wloc[m].kind
           w == CHOOSE x \in Workers(k) :
                    wpc[x] = "none" /\ \A y \in Workers(k) : wpc[y] = "none" => x[2] <= y[2]
       IN /\ running' = [running EXCEPT ![k] = TRUE]
          /\ thread' = [thread EXCEPT ![k] = w]
          /\ wpc' = [wpc EXCEPT ![m] = "idle", ![w] = "w_check"]
    /\ wloc' = [wloc EXCEPT ![m] = NoWLoc]
    /\ UNCHANGED <<svars, whist>>

\* stop_heartbeat / stop_command_polling: if self.<k>_running:
StopWorker(m, k) ==
    /\ wpc[m] = "idle"
    /\ whist.ncalls < MaxCalls
    /\ IF running[k]
       THEN /\ WGoto(m, "x_clear")
            /\ wloc' = [wloc EXCEPT ![m].kind = k]
       ELSE UNCHANGED <<wpc, wloc>>
    /\ whist' = Called
    /\ UNCHANGED <<svars, running, thread>>

\* self.<k>_running = False
StopClear(m) ==
    /\ wpc[m] = "x_clear"
    /\ LET k == wloc[m].kind IN
       /\ running' = [running EXCEPT ![k] = FALSE]
       /\ whist' = [whist EXCEPT !.cleared[k] = @ + 1,
                                 !.stopreq = @ \cup {w \in Workers(k) : Alive(w)}]
    /\ WGoto(m, "x_join")
    /\ UNCHANGED <<svars, thread, wloc>>

\* if self.<k>_thread: self.<k>_thread.join(timeout=2): returns when the
\* thread has ended or when two seconds have passed, whichever is first
StopJoin(m) ==
    /\ wpc[m] = "x_join"
    /\ WGoto(m, "idle")
    /\ wloc' = [wloc EXCEPT ![m] = NoWLoc]
    /\ UNCHANGED <<svars, running, thread, whist>>

\* ------------------------------------------------------ heartbeat_worker
\* while self.<k>_running:
WorkerCheck(w) ==
    /\ wpc[w] = "w_check"
    /\ WGoto(w, IF ~running[w[1]] THEN "w_done"
                ELSE IF w[1] = "heartbeat" THEN "h_send" ELSE "p_poll")
    /\ UNCHANGED <<svars, running, thread, wloc, whist>>

\* a send failure that leaves send_heartbeat as an exception
AfterSendRaises(ok) == IF ok THEN "w_sleep" ELSE "w_dead"
\* send_heartbeat returns, whether the request succeeded or `except Exception`
\* printed the failure; time.sleep follows
AfterSend(ok) == "w_sleep"

\* self.send_heartbeat()
HeartbeatSend(w, ok) ==
    /\ wpc[w] = "h_send"
    /\ WGoto(w, AfterSend(ok))
    /\ whist' = [whist EXCEPT !.lastfail[w] = ~ok]
    /\ UNCHANGED <<svars, running, thread, wloc>>

\* time.sleep(self.heartbeat_interval) / time.sleep(self.command_poll_interval)
WorkerSleep(w) ==
    /\ wpc[w] = "w_sleep"
    /\ WGoto(w, "w_check")
    /\ UNCHANGED <<svars, running, thread, wloc, whist>>

\* ----------------------------------------------- command_polling_worker
\* what a poll can meet: a response carrying a command, a 'command' that is
\* no dict, a response without a command, a 2xx status other than 200, and
\* the failures: no network (URLError), HTTP 401 and 500 (HTTPError), a body
\* that is no JSON, a JSON body that is no object
PollOutcomes == {"command", "junk", "nocommand", "status204",
                 "neterr", "http401", "http500", "badjson", "nodict"}
PollFailures == {"neterr", "http401", "http500", "badjson", "nodict", "status204", "junk"}

\* a poll that takes the 'command' of a response whatever its status
PollIgnoresStatus(o, c) ==
    IF o \in {"command", "status204"} THEN c
    ELSE IF o = "junk" THEN JunkCommand
    ELSE NoCommand

\* poll_for_commands(): data.get('command') of a 200 response that has one;
\* None after `except urllib.error.HTTPError`, after `except Exception`, for
\* another status and for a response without a command
PollForCommands(o, c) ==
    IF o = "command" THEN c
    ELSE IF o = "junk" THEN JunkCommand
    ELSE NoCommand

\* how the commands of execute_command can end
ExecOutcomes == {"exit0", "exit1", "timeout", "oserror"}

\* the text of the timeout's stderr
TimeoutText(timeout) == <<"Command timed out after", timeout, "seconds">>

\* a timeout reported with the exit code of a command that succeeded
TimeoutAsSuccess(cmd) ==
    [command_uuid |-> cmd.command_uuid, command_id |-> cmd.command_id,
     exit_code |-> 0, stdout |-> <<>>, stderr |-> TimeoutText(cmd.timeout)]
\* except subprocess.TimeoutExpired: the record that is returned
TimeoutRecord(cmd) ==
    [command_uuid |-> cmd.command_uuid, command_id |-> cmd.command_id,
     exit_code |-> -1, stdout |-> <<>>, stderr |-> TimeoutText(cmd.timeout),
     error |-> "timeout"]

\* execute_command(command_data): the record it returns (without the two
\* time stamps executed_at and duration_seconds)
ExecuteCommand(cmd, o) ==
    IF o = "timeout" THEN TimeoutRecord(cmd)
    ELSE IF o = "oserror" THEN
        [command_uuid |-> cmd.command_uuid, command_id |-> cmd.command_id,
         exit_code |-> -1, stdout |-> <<>>, stderr |-> <<"OSError">>,
         error |-> "OSError"]
    ELSE
        [command_uuid |-> cmd.command_uuid, command_id |-> cmd.command_id,
         exit_code |-> IF o = "exit0" THEN 0 ELSE 1,
         stdout |-> <<"out", cmd.command_id>>, stderr |-> <<>>]

Logged(w, what) == [whist EXCEPT !.cmdlog[w] = Append(@, what)]
Polled(w) == Count(whist.cmdlog[w], "poll")

\* a cycle without a command that ends the worker
AfterNoCommandExits == "w_done"
\* `if command:` is false: the cycle goes on to time.sleep
AfterNoCommand == "w_sleep"

\* command = self.poll_for_commands(); if command:
PollStep(w, o, c) ==
    /\ wpc[w] = "p_poll"
    /\ LET cmd == PollForCommands(o, c) IN
       /\ cmd \in Commands => Polled(w) < MaxCommands
       /\ IF cmd = NoCommand
          THEN /\ WGoto(w, AfterNoCommand)
               /\ whist' = [whist EXCEPT !.lastfail[w] = o \in PollFailures]
               /\ UNCHANGED wloc
          ELSE /\ WGoto(w, "p_exec")
               /\ wloc' = [wloc EXCEPT ![w].command = cmd]
               /\ whist' = [(IF cmd \in Commands THEN Logged(w, "poll") ELSE whist)
                               EXCEPT !.lastfail[w] = o \in PollFailures]
    /\ UNCHANGED <<svars, running, thread>>

\* result = self.execute_command(command). A command that is no dict raises
\* AttributeError at command_data.get, which the loop's `except Exception`
\* catches and prints.
ExecStep(w, o) ==
    /\ wpc[w] = "p_exec"
    /\ LET cmd == wloc[w].command IN
       IF cmd = JunkCommand
       THEN /\ o = "oserror"
            /\ WGoto(w, "w_sleep")
            /\ wloc' = [wloc EXCEPT ![w] = NoWLoc]
            /\ UNCHANGED whist
       ELSE /\ WGoto(w, "p_submit")
            /\ wloc' = [wloc EXCEPT ![w].result = ExecuteCommand(cmd, o), ![w].outcome = o]
            /\ whist' = Logged(w, "exec")
    /\ UNCHANGED <<svars, running, thread>>

\* a failed submission that is tried again
AfterSubmitRetries(ok) == IF ok THEN "w_sleep" ELSE "p_submit"
\* submit_command_result returns, whether the POST succeeded or not; the
\* worker prints and goes on to time.sleep
AfterSubmit(ok) == "w_sleep"

\* self.submit_command_result(result): one POST; a status other than 200 and
\* every exception are printed. The result is not kept.
SubmitStep(w, ok) ==
    /\ wpc[w] = "p_submit"
    /\ WGoto(w, AfterSubmit(ok))
    /\ wloc' = [wloc EXCEPT ![w] = IF AfterSubmit(ok) = "w_sleep" THEN NoWLoc ELSE @]
    /\ whist' = Logged(w, IF ok THEN "submit_ok" ELSE "submit_fail")
    /\ UNCHANGED <<svars, running, thread>>

\* ------------------------------------------------------- run_continuous
Main == <<"main", 1>>  \* the main thread as a caller of start and stop

\* self.start_heartbeat(); self.start_command_polling(): one call each, in
\* this order, a server and a key being configured
RunStart ==
    /\ pc[MT] \in {"idle", "m_start_poll"}
    /\ wpc[Main] = "idle"
    /\ LET k == IF pc[MT] = "idle" THEN "heartbeat" ELSE "command_polling" IN
       IF running[k]
       THEN UNCHANGED <<wpc, wloc>>
       ELSE /\ WGoto(Main, "s_start")
            /\ wloc' = [wloc EXCEPT ![Main].kind = k]
    /\ whist' = Called
    /\ Goto(MT, IF pc[MT] = "idle" THEN "m_start_poll" ELSE "m_run")
    /\ UNCHANGED <<shell_sessions, shell_connected, sio, loc, conn, fdtab, proc, sig, winsz,
                   ptyin, inq, ptyout, produced, emitted, raised, tdlog, hist, discDone,
                   running, thread>>

\* shell_thread = threading.Thread(target=self.start_shell_client); the
\* thread runs start_shell_client at some time after main has started it
RunShellClient ==
    /\ pc[MT] \notin {"idle", "m_start_poll"}
    /\ ClientCreate

\* except KeyboardInterrupt: self.stop_shell_client(): if self.sio: the list
\* of the keys is taken for the loop; with no client the method does nothing
Interrupt ==
    /\ pc[MT] = "m_run"
    /\ wpc[Main] = "idle"
    /\ IF sio = "None"
       THEN /\ Goto(MT, "m_stop_poll")
            /\ UNCHANGED <<loc, hist>>
       ELSE /\ loc' = [loc EXCEPT ![MT] = [NoLoc EXCEPT !.todo = Keys(shell_sessions)]]
            /\ hist' = [hist EXCEPT !.ended = @ \cup (RegPids(shell_sessions) \cap hist.running)]
            /\ Goto(MT, "m_stoploop")
    /\ UNCHANGED <<wvars, shell_sessions, shell_connected, sio, conn, fdtab, proc, sig, winsz,
                   ptyin, inq, ptyout, produced, emitted, raised, tdlog, discDone>>

\* for session_id in <the list>: self._close_shell_session(session_id)
ShellStopLoop ==
    /\ pc[MT] = "m_stoploop"
    /\ IF loc[MT].todo = <<>>
       THEN /\ Return(MT, "m_disc")
            /\ UNCHANGED <<shell_sessions, tdlog, hist, raised>>
       ELSE PopSession(MT, [loc[MT] EXCEPT !.todo = Tail(@)], hist,
                       Head(loc[MT].todo), "m_stoploop")
    /\ UNCHANGED <<wvars, shell_connected, sio, conn, fdtab, proc, sig, winsz, ptyin, inq,
                   ptyout, produced, emitted, discDone>>

\* self.sio.disconnect(): on a connected client the connection is closed and
\* the disconnect handler runs before the call returns; on a client that is
\* not connected the call does nothing. With self.sio set to None meanwhile
\* (the connect attempt failed) the AttributeError is caught by the except.
ShellStopDisconnect ==
    /\ pc[MT] = "m_disc"
    /\ IF conn = "up"
       THEN /\ conn' = "down"
            /\ pc' = [pc EXCEPT ![MT] = "m_wait", ![DT] = "d_start"]
       ELSE /\ Goto(MT, "m_clear")
            /\ UNCHANGED conn
    /\ UNCHANGED <<wvars, shell_sessions, shell_connected, sio, loc, fdtab, proc, sig, winsz,
                   ptyin, inq, ptyout, produced, emitted, raised, tdlog, hist, discDone>>

\* the disconnect handler has returned, and with it self.sio.disconnect()
ShellStopWait ==
    /\ pc[MT] = "m_wait"
    /\ pc[DT] = "idle"
    /\ Goto(MT, "m_clear")
    /\ UNCHANGED <<wvars, shell_sessions, shell_connected, sio, loc, conn, fdtab, proc, sig,
                   winsz, ptyin, inq, ptyout, produced, emitted, raised, tdlog, hist, discDone>>

\* self.sio = None; self.shell_connected = False
ShellStopClear ==
    /\ pc[MT] = "m_clear"
    /\ sio' = "None"
    /\ shell_connected' = FALSE
    /\ Goto(MT, "m_stop_poll")
    /\ UNCHANGED <<wvars, shell_sessions, loc, conn, fdtab, proc, sig, winsz, ptyin, inq,
                   ptyout, produced, emitted, raised, tdlog, hist, discDone>>

\* self.stop_command_polling(); self.stop_heartbeat(): each is entered when
\* the call before it has returned
ShutdownStop ==
    /\ pc[MT] \in {"m_stop_poll", "m_stop_hb"}
    /\ wpc[Main] = "idle"
    /\ LET k == IF pc[MT] = "m_stop_poll" THEN "command_polling" ELSE "heartbeat" IN
       IF running[k]
       THEN /\ WGoto(Main, "x_clear")
            /\ wloc' = [wloc EXCEPT ![Main].kind = k]
       ELSE UNCHANGED <<wpc, wloc>>
    /\ whist' = Called
    /\ Goto(MT, IF pc[MT] = "m_stop_poll" THEN "m_stop_hb" ELSE "m_end")
    /\ UNCHANGED <<shell_sessions, shell_connected, sio, loc, conn, fdtab, proc, sig, winsz,
                   ptyin, inq, ptyout, produced, emitted, raised, tdlog, hist, discDone,
                   running, thread>>

\* stop_heartbeat has returned: run_continuous returns
ShutdownEnd ==
    /\ pc[MT] = "m_end"
    /\ wpc[Main] = "idle"
    /\ Goto(MT, "m_done")
    /\ UNCHANGED <<wvars, shell_sessions, shell_connected, sio, loc, conn, fdtab, proc, sig,
                   winsz, ptyin, inq, ptyout, produced, emitted, raised, tdlog, hist, discDone>>

\* ------------------------------------------------------- specification
Teardown == \E t \in Threads : CloseFd(t) \/ SendTerm(t) \/ SendKill(t) \/ Reap(t)

\* the reader's steps; it reaches ReaderEmit only once a child has written
Reader ==
    \/ \E t \in Readers : ReaderGet(t)
    \/ \E t \in Readers : ReaderLoop(t)
    \/ \E t \in Readers, out \in {"ok", "raise"} : ReaderExitEmit(t, out)
    \/ \E t \in Readers : ReaderExitClose(t)
    \/ \E t \in Readers : ReaderSelect(t)
    \/ \E t \in Readers : ReaderFinally(t)

Open ==
    \/ \E ok \in BOOLEAN : OpenRegister(ok)
    \/ \E out \in {"ok", "raise"} : OpenEmitReady(out)
    \/ \E ok \in BOOLEAN : OpenStartThread(ok)
    \/ \E out \in {"ok", "raise"} : OpenExcept(out)

\* The sessions' life: opens (with operating-system failures) and closes of
\* both ids, link drops with the disconnect handler, readers, children ending.
Next ==
    \/ ClientCreate
    \/ Connect
    \/ ConnDrop
    \/ DisconnectStart
    \/ DisconnectLoop
    \/ \E s \in SessionIds, ok \in BOOLEAN : OnShellOpen(s, DefaultRows, DefaultCols, ok)
    \/ Open
    \/ \E s \in SessionIds : OnShellClose(s, 0)
    \/ Teardown
    \/ Reader
    \/ \E p \in Pids : ChildDies(p)

Spec == Init /\ [][Next]_vars

\* Input and resize: sessions of id "s1" on a link that stays up, input,
\* resize and close events for both ids ("s2" is never opened).
NextIn ==
    \/ ClientCreate
    \/ Connect
    \/ OnShellOpen("s1", DefaultRows, DefaultCols, TRUE)
    \/ Open
    \/ \E s \in SessionIds, text \in Payloads : OnShellInput(s, text)
    \/ InputWrite
    \/ \E s \in SessionIds, d \in DimPairs : OnShellResize(s, d[1], d[2])
    \/ ResizeIoctl
    \/ \E s \in SessionIds : OnShellClose(s, 1)
    \/ Teardown
    \/ Reader
    \/ \E p \in Pids : ChildDies(p) \/ ChildReads(p)

SpecIn == Init /\ [][NextIn]_vars

\* Output: sessions of id "s1" whose children write to their terminals.
NextOut ==
    \/ ClientCreate
    \/ Connect
    \/ OnShellOpen("s1", DefaultRows, DefaultCols, TRUE)
    \/ Open
    \/ \E s \in SessionIds : OnShellClose(s, 0)
    \/ Teardown
    \/ Reader
    \/ \E t \in Readers, out \in {"ok", "raise"} : ReaderEmit(t, out)
    \/ \E p \in Pids : ChildDies(p) \/ ChildWrites(p)

SpecOut == Init /\ [][NextOut]_vars

\* Connection and registration: the first connect may fail, the server
\* answers the registration with shell_registered or shell_error, sessions
\* of id "s1" are opened and closed, the link may drop.
NextReg ==
    \/ ClientCreate
    \/ Connect
    \/ ConnectFail
    \/ OnShellRegistered
    \/ OnShellError
    \/ ConnDrop
    \/ DisconnectStart
    \/ DisconnectLoop
    \/ OnShellOpen("s1", DefaultRows, DefaultCols, TRUE)
    \/ Open
    \/ OnShellClose("s1", 0)
    \/ Teardown
    \/ Reader
    \/ \E p \in Pids : ChildDies(p)

\* Every thread that can take a step eventually takes one, and a connect
\* attempt that stays possible eventually succeeds.
SpecReg == Init /\ [][NextReg]_vars /\ WF_vars(NextReg) /\ SF_vars(Connect)

\* one worker thread's steps
HeartbeatWorker(w) ==
    \/ WorkerCheck(w)
    \/ \E ok \in BOOLEAN : HeartbeatSend(w, ok)
    \/ WorkerSleep(w)

CommandPollingWorker(w) ==
    \/ WorkerCheck(w)
    \/ \E o \in PollOutcomes, c \in Commands : PollStep(w, o, c)
    \/ \E o \in ExecOutcomes : ExecStep(w, o)
    \/ \E ok \in BOOLEAN : SubmitStep(w, ok)
    \/ WorkerSleep(w)

\* a call of start or stop that is under way
CallStep(m) == StartThread(m) \/ StopClear(m) \/ StopJoin(m)

\* The workers: two threads call the start and stop methods in any order,
\* the workers that were started run their loops.
NextWork ==
    \/ \E m \in Callers, k \in Kinds : StartWorker(m, k)
    \/ \E m \in Callers, k \in Kinds : StopWorker(m, k)
    \/ \E m \in Callers : CallStep(m)
    \/ \E w \in Workers("heartbeat") : HeartbeatWorker(w)
    \/ \E w \in Workers("command_polling") : CommandPollingWorker(w)

\* Every thread that has a step to take eventually takes it: a worker in
\* its loop, a caller inside start or stop. New calls need not come.
SpecWork ==
    /\ Init /\ [][NextWork]_vars
    /\ \A w \in Workers("heartbeat") : WF_vars(HeartbeatWorker(w))
    /\ \A w \in Workers("command_polling") : WF_vars(CommandPollingWorker(w))
    /\ \A m \in Callers : WF_vars(CallStep(m))

\* The agent's run and its shutdown: main starts the two workers and the
\* shell client, the server opens a session, the link may drop, and
\* KeyboardInterrupt takes main through stop_shell_client,
\* stop_command_polling and stop_heartbeat.
Shutdown ==
    \/ Interrupt
    \/ ShellStopLoop
    \/ ShellStopDisconnect
    \/ ShellStopWait
    \/ ShellStopClear
    \/ ShutdownStop
    \/ ShutdownEnd

NextStop ==
    \/ RunStart
    \/ RunShellClient
    \/ CallStep(Main)
    \/ \E w \in AllWorkers : WorkerCheck(w)
    \/ \E w \in Workers("heartbeat") : HeartbeatSend(w, TRUE)
    \/ \E w \in Workers("command_polling"), c \in Commands : PollStep(w, "nocommand", c)
    \/ \E w \in AllWorkers : WorkerSleep(w)
    \/ Connect
    \/ ConnectFail
    \/ ConnDrop
    \/ DisconnectStart
    \/ DisconnectLoop
    \/ hist.nopens = 0 /\ OnShellOpen("s1", DefaultRows, DefaultCols, TRUE)
    \/ OpenRegister(TRUE)
    \/ \E out \in {"ok", "raise"} : OpenEmitReady(out)
    \/ OpenStartThread(TRUE)
    \/ \E out \in {"ok", "raise"} : OpenExcept(out)
    \/ Teardown
    \/ Reader
    \/ \E p \in Pids : ChildDies(p)
    \/ Shutdown

SpecStop == Init /\ [][NextStop]_vars

\* Sessions side by side and one after the other: opens of both ids without
\* operating-system failures, closes, children that write and end, and the
\* readers relaying what they read.
NextIso ==
    \/ ClientCreate
    \/ Connect
    \/ \E s \in SessionIds : OnShellOpen(s, DefaultRows, DefaultCols, TRUE)
    \/ OpenRegister(TRUE)
    \/ OpenEmitReady("ok")
    \/ OpenStartThread(TRUE)
    \/ \E s \in SessionIds : OnShellClose(s, 0)
    \/ Teardown
    \/ Reader
    \/ \E t \in Readers : ReaderEmit(t, "ok")
    \/ \E p \in Pids : ChildDies(p) \/ ChildWrites(p)

SpecIso == Init /\ [][NextIso]_vars

\* ================================================================ claims
Entries == {shell_sessions[i] : i \in 1..Len(shell_sessions)}
Unreaped(p) == proc[p] \in {"alive", "exited", "killed"}
OpenOn(p) == {f \in Fds : fdtab[f] = p}
TeardownPcs == {"c_closefd", "c_term", "c_kill", "c_reap"}
\* no handler is running and every reader stands between two rounds of its loop
Quiet == /\ pc[TT] = "idle" /\ pc[DT] = "idle"
         /\ \A t \in Readers : pc[t] \in {"none", "r_loop", "r_select", "r_done"}
\* no handler is running and every reader thread that was started has ended
Settled == /\ pc[TT] = "idle" /\ pc[DT] = "idle"
           /\ \A t \in Readers : pc[t] \in {"none", "r_done"}

EventsOf(name, k) == {i \in 1..Len(emitted) : emitted[i].ev = name /\ emitted[i].call = k}
ReadyCount(k) == Cardinality(EventsOf("shell_ready", k))
FailCount(k) == Cardinality({i \in EventsOf("shell_client_exit", k) : emitted[i].code = -1})

\* C1: every shell_open that _open_shell_session has finished handling emitted
\* exactly one event: one shell_ready or one shell_client_exit(-1), never
\* neither and never both.
OpenYieldsExactlyOneEvent ==
    \A k \in hist.opendone : ReadyCount(k) + FailCount(k) = 1

\* the process/terminal pairs registered under id s that no close has taken
LivePairs(s) == {p \in Pids : /\ hist.sessOf[p] = s
                              /\ Count(tdlog[p], "pop") = 0
                              /\ proc[p] = "alive" /\ OpenOn(p) # {}}

\* C2: at most one live child-process/PTY pair exists per session id: an open
\* for an id already in shell_sessions does not replace the entry and does not
\* leave the existing process and descriptor unreferenced.
AtMostOnePairPerId ==
    \A s \in SessionIds : /\ Cardinality(LivePairs(s)) <= 1
                          /\ LivePairs(s) \subseteq RegPids(shell_sessions)

\* C3: the registry and the operating system agree: every entry refers to an
\* open descriptor and an un-reaped child, and every open terminal descriptor
\* and un-reaped child is referenced by an entry (stated where no handler or
\* teardown is under way).
RegistryAgreesWithOS ==
    Quiet => /\ \A e \in Entries : fdtab[e.fd] = e.pid /\ Unreaped(e.pid)
             /\ \A f \in Fds : fdtab[f] # NoPid => f \in RegFds(shell_sessions)
             /\ \A p \in Pids : Unreaped(p) => p \in RegPids(shell_sessions)

InTeardown(p) == {t \in Threads : pc[t] \in TeardownPcs /\ loc[t].cpid = p}

\* C4: whoever calls _close_shell_session for a session, in any interleaving,
\* exactly one caller removes the entry and tears down: the entry is popped
\* once, the descriptor closed once, each signal sent at most once, by one
\* thread; an entry that has left the registry was popped by its one caller.
TeardownOnce ==
    \A p \in Pids :
        /\ Count(tdlog[p], "pop") <= 1
        /\ Count(tdlog[p], "close") <= 1
        /\ Count(tdlog[p], "term") <= 1
        /\ Count(tdlog[p], "kill") <= 1
        /\ Count(tdlog[p], "reap") <= 1
        /\ Cardinality(InTeardown(p)) <= 1
        /\ p \in RegPids(shell_sessions) => tdlog[p] = <<>>
        /\ (hist.sessOf[p] # "none" /\ p \notin RegPids(shell_sessions)
              /\ p \notin hist.replaced) => Count(tdlog[p], "pop") = 1
        /\ (Count(tdlog[p], "pop") = 1 /\ InTeardown(p) = {})
              => Count(tdlog[p], "close") = 1

\* C4 witness: the event thread or the disconnect handler tore the session
\* down, and the session's reader has run its own close and ended.
TeardownOnceWitness ==
    \E p \in Pids : /\ hist.popper[p] \in {"T", "D"}
                    /\ pc[RT(p)] = "r_done"
                    /\ Count(tdlog[p], "close") = 1
                    /\ \A q \in Pids : hist.popper[q] # "R"

\* C5: however a running session ends (shell_close for its id, the disconnect
\* handler, its child ending by itself), once the threads have come to rest its
\* entry is gone from shell_sessions and its descriptor is closed.
EndedSessionIsReleased ==
    Settled => \A p \in hist.ended : p \notin RegPids(shell_sessions) /\ OpenOn(p) = {}

\* C6: once the disconnect handler has returned, and until the next connect,
\* shell_sessions is empty.
DisconnectClosesAll == discDone => shell_sessions = <<>>

\* C7: shell_input, shell_resize and shell_close for an id that is not in
\* shell_sessions change nothing: not the registry, no descriptor, process or
\* window size, no event is emitted, no exception raised, no thread moves.
UnknownIdIsNoOp ==
    [][hist'.nnoop > hist.nnoop => UNCHANGED <<world, pc, loc>>]_vars

\* C7 witness: such an event has been handled while a session was open.
UnknownIdWitness == hist.nnoop > 0 /\ shell_sessions # <<>>

\* C8: the bytes of the shell_input events of a running session, decoded,
\* are the bytes its terminal has accepted, complete and in order.
InputDeliveredInOrder ==
    pc[TT] # "i_write" =>
        \A e \in Entries : fdtab[e.fd] = e.pid => ptyin[e.pid] = hist.inreq[e.pid]

OutputEvents(s) == SelectSeq(emitted, LAMBDA e : e.ev = "shell_output" /\ e.sid = s)
RECURSIVE DecodedOutput(_)
DecodedOutput(es) ==
    IF es = <<>> THEN <<>> ELSE B64Decode(Head(es).data) \o DecodedOutput(Tail(es))

\* C9: for one session id, the decoded payloads of its shell_output events, in
\* emission order, are the bytes read for it in the order they were read: no
\* chunk out of order, none twice.
OutputInOrder ==
    \A s \in SessionIds : IsSubseq(DecodedOutput(OutputEvents(s)), hist.rdlog[s])

\* C10: the stored dimensions of a session equal the window size of its
\* terminal, whatever rows and cols the server sent.
StoredDimsMatchPty ==
    pc[TT] = "idle" =>
        \A e \in Entries : fdtab[e.fd] = e.pid => winsz[e.pid] = <<e.rows, e.cols>>

\* what a step may not change of the registered session e when the step
\* belongs to another session
Untouched(e) == /\ e \in Entries'
                /\ fdtab'[e.fd] = fdtab[e.fd]
                /\ proc'[e.pid] = proc[e.pid]
                /\ sig'[e.pid] = sig[e.pid]
                /\ tdlog'[e.pid] = tdlog[e.pid]
                /\ pc'[RT(e.pid)] = pc[RT(e.pid)]

\* the step pops, tears down, or is the death of, the session of child p
ClosesSession(p) == tdlog'[p] # tdlog[p] \/ proc'[p] # proc[p]

NewSessions == RegPids(shell_sessions)' \ RegPids(shell_sessions)
NewEvents(names) == {i \in (Len(emitted) + 1)..Len(emitted') : emitted'[i].ev \in names}

\* C12: every connection that is established emits shell_register_client, and
\* a session is created only once shell_registered has been received on the
\* current connection.
RegistrationPrecedesShell ==
    [][/\ (conn = "down" /\ conn' = "up") => NewEvents({"shell_register_client"}) # {}
       /\ NewSessions # {} => hist.reg = "registered"]_vars

\* C13: from a shell_error until the next connect no session is created and
\* no shell_ready and no shell_output is emitted.
ShellErrorDisablesShell ==
    [][(hist.reg = "error" /\ hist'.reg = "error")
          => NewSessions = {} /\ NewEvents({"shell_ready", "shell_output"}) = {}]_vars

\* C14: when the first connect attempt has failed (start_shell_client has
\* returned and self.sio is None), the agent is eventually connected.
FailedConnectIsRetried == (hist.started /\ sio = "None") ~> (conn = "up")

Pollers == Workers("command_polling")
Execs(w) == Count(whist.cmdlog[w], "exec")
Submits(w) == Count(whist.cmdlog[w], "submit_ok") + Count(whist.cmdlog[w], "submit_fail")

\* C15: every command a poll returned is executed once and its one result
\* submitted once, successfully or not: no command is executed that was not
\* polled, none twice, no result is submitted twice, and when the worker has
\* reached its sleep every polled command has one execution and one submission.
CommandExecutedOnce ==
    \A w \in Pollers :
        /\ Execs(w) <= Polled(w) /\ Submits(w) <= Execs(w)
        /\ (wpc[w] = "p_exec" /\ wloc[w].command \in Commands) => Execs(w) = Polled(w) - 1
        /\ wpc[w] = "p_submit" => Execs(w) = Polled(w) /\ Submits(w) = Execs(w) - 1
        /\ wpc[w] \in {"w_sleep", "w_check", "p_poll", "w_done"}
              => Execs(w) = Polled(w) /\ Submits(w) = Execs(w)

\* C15 witness: a submission failed and the worker has come round to its next poll.
CommandExecutedOnceWitness ==
    \E w \in Pollers : /\ whist.cmdlog[w] = <<"poll", "exec", "submit_fail">>
                       /\ wpc[w] = "p_poll"

\* C16: the record execute_command returns carries the command's own
\* command_uuid and command_id; for a timeout it has exit_code -1, an empty
\* stdout, a stderr that is not empty and error = "timeout"; for a command
\* that finished it has the process's exit code and no error field.
TimeoutYieldsRecord ==
    \A w \in Pollers : wpc[w] = "p_submit" =>
        LET r == wloc[w].result
            c == wloc[w].command
            o == wloc[w].outcome
        IN /\ r.command_uuid = c.command_uuid /\ r.command_id = c.command_id
           /\ o = "timeout" => /\ r.exit_code = -1 /\ r.stdout = <<>> /\ r.stderr # <<>>
                               /\ "error" \in DOMAIN r /\ r.error = "timeout"
           /\ o \in {"exit0", "exit1"} => /\ r.exit_code = (IF o = "exit0" THEN 0 ELSE 1)
                                          /\ "error" \notin DOMAIN r

\* C16 witness: a command has timed out and its record is about to be submitted.
TimeoutYieldsRecordWitness ==
    \E w \in Pollers : wpc[w] = "p_submit" /\ wloc[w].outcome = "timeout"

\* a worker ends only by reading its cleared flag at the top of its loop
EndsOnlyWhenStopped(w) ==
    /\ wpc'[w] # "w_dead"
    /\ (wpc[w] # "w_done" /\ wpc'[w] = "w_done") => (wpc[w] = "w_check" /\ ~running[w[1]])

\* C17: a poll that fails, for whatever reason, does not end the worker: the
\* worker leaves its loop only by reading command_polling_running = False, and
\* after a failed poll it sleeps and then polls again (or finds itself stopped).
PollFailureKeepsLoop ==
    /\ [][\A w \in Pollers : EndsOnlyWhenStopped(w)]_vars
    /\ \A w \in Pollers :
          (whist.lastfail[w] /\ wpc[w] \in {"w_sleep", "p_exec"})
              ~> (wpc[w] \in {"p_poll", "w_done"})

\* C17 witness: after a failed poll the worker stands at its next poll.
PollFailureWitness ==
    \E w \in Pollers : whist.lastfail[w] /\ wpc[w] = "p_poll" /\ running["command_polling"]

\* C18: a failed heartbeat does not end the worker: the worker leaves its loop
\* only by reading heartbeat_running = False, and after a failed send it sleeps
\* and then sends again (or finds itself stopped).
HeartbeatSurvivesFailure ==
    /\ [][\A w \in Workers("heartbeat") : EndsOnlyWhenStopped(w)]_vars
    /\ \A w \in Workers("heartbeat") :
          (whist.lastfail[w] /\ wpc[w] = "w_sleep") ~> (wpc[w] \in {"h_send", "w_done"})

\* C18 witness: after a failed send the worker stands at its next send.
HeartbeatSurvivesWitness ==
    \E w \in Workers("heartbeat") :
        whist.lastfail[w] /\ wpc[w] = "h_send" /\ running["heartbeat"]

\* C19: start calls start one worker thread between them, however they
\* interleave: a further thread of a kind is started only after a stop has
\* cleared that kind's flag.
StartIsIdempotent ==
    \A k \in Kinds : Cardinality(Started(k)) <= 1 + whist.cleared[k]

\* C20: a worker that was running when stop cleared its flag eventually ends,
\* a worker that has ended starts no further iteration, and the stop call
\* itself returns.
StopEndsWorker ==
    /\ \A w \in AllWorkers : (w \in whist.stopreq) ~> (wpc[w] = "w_done")
    /\ [][\A w \in AllWorkers : wpc[w] = "w_done" => wpc'[w] = "w_done"]_vars
    /\ \A m \in Callers : (wpc[m] = "x_join") ~> (wpc[m] = "idle")

\* C21: once the shutdown path of run_continuous has completed
\* (stop_shell_client, stop_command_polling and stop_heartbeat have returned),
\* shell_sessions is empty, heartbeat_running and command_polling_running are
\* false and shell_connected is false.
ShutdownStopsAll ==
    pc[MT] = "m_done" =>
        /\ shell_sessions = <<>>
        /\ ~running["heartbeat"]
        /\ ~running["command_polling"]
        /\ ~shell_connected

\* C22: no handler of an inbound event is left by an exception, whatever the
\* state of the connection, and no worker loop is ended by a failure.
NoUncaughtException ==
    /\ raised = {}
    /\ \A w \in AllWorkers : wpc[w] # "w_dead"

\* C23: a write, a window-size ioctl or a select/read that a thread issues on
\* the descriptor it has taken from a session's entry finds the descriptor
\* still open for that session: _close_shell_session has not closed it.
NoUseAfterClose ==
    [][/\ (pc[TT] \in {"i_write", "z_ioctl"} /\ pc'[TT] # pc[TT])
            => fdtab[loc[TT].fd] = loc[TT].pid
       /\ \A t \in Readers : (pc[t] = "r_select" /\ pc'[t] # "r_select")
            => fdtab[loc[t].fd] = loc[t].pid]_vars

\* C24: once the entry of a session has been removed from shell_sessions, the
\* reader thread started for that session reads no further output and emits
\* no shell_output for bytes read after the removal, whatever events follow
\* (a later shell_open of the same session_id among them).
ClosedSessionReaderStops ==
    [][\A p \in Pids :
         Count(tdlog[p], "pop") > 0 =>
             ~(pc[RT(p)] = "r_select" /\ pc'[RT(p)] = "r_emit")]_vars

\* C25: when _close_shell_session has performed the teardown of a session and
\* every thread has come to rest, the child has been reaped: no zombie (and no
\* live child) is left, also when the child dies only from SIGKILL.
TeardownLeavesNoZombie ==
    Settled =>
        \A p \in Pids :
            (Count(tdlog[p], "pop") > 0 /\ InTeardown(p) = {}) => proc[p] = "reaped"

\* C26: a teardown closes the descriptor, then sends SIGTERM, then (after the
\* grace period) sends SIGKILL only if the child is still alive, then reaps;
\* a step that fails does not skip the steps after it.
TeardownInOrder ==
    [][\A t \in Threads :
         /\ (pc[t] = "c_closefd" /\ pc'[t] # pc[t]) => pc'[t] = "c_term"
         /\ (pc[t] = "c_term" /\ pc'[t] # pc[t]) => pc'[t] = "c_kill"
         /\ (pc[t] = "c_kill" /\ pc'[t] # pc[t]) =>
                /\ pc'[t] = "c_reap"
                /\ tdlog' # tdlog => proc[loc[t].cpid] = "alive"]_vars

\* C27: whenever _open_shell_session emits shell_client_exit(session_id, -1),
\* nothing of that open is left: no entry of shell_sessions holds its child,
\* no reader thread was started for it, and the child and the descriptor that
\* its pty.fork() created (if it got that far) are gone.
FailedOpenLeavesNothing ==
    [][(pc[TT] = "o_except" /\ Len(emitted') > Len(emitted)) =>
          LET p == loc[TT].pid IN
          p # NoPid =>
              /\ p \notin RegPids(shell_sessions)
              /\ pc[RT(p)] = "none"
              /\ ~Unreaped(p)
              /\ OpenOn(p) = {}]_vars

\* C28: _open_shell_session emits shell_ready(session_id) only when the
\* session is registered in shell_sessions and its reader thread has been
\* started.
ReadyAfterReaderStarted ==
    [][(pc[TT] = "o_ready" /\ Len(emitted') > Len(emitted)) =>
          /\ loc[TT].pid \in RegPids(shell_sessions)
          /\ pc[RT(loc[TT].pid)] # "none"]_vars

\* the shell_client_exit event a reader emits for the exit it has observed
ExitEvent(t) == Ev("shell_client_exit", loc[t].sid, loc[t].code, <<>>, 0)
\* the reader t, which has observed that the child of a registered session
\* exited on its own (exit status 0), takes its next step
ReportsNaturalExit(t) ==
    /\ pc[t] = "r_exit" /\ pc'[t] # "r_exit"
    /\ loc[t].code = 0
    /\ loc[t].pid \in RegPids(shell_sessions)

\* C29 as stated: whenever the reader of a registered session observes that
\* the child has exited on its own, shell_client_exit(session_id, exit_code)
\* is emitted, whatever the connection state, and the teardown follows.
NaturalExitAlwaysReported ==
    [][\A t \in Readers :
         ReportsNaturalExit(t) =>
             /\ emitted' = Append(emitted, ExitEvent(t))
             /\ pc'[t] = "r_exitclose"]_vars

\* C29, amended: the reader emits shell_client_exit(session_id, exit_code)
\* with the child's exit code when self.sio is set and shell_connected is
\* true (and the emit does not raise, which it cannot while the link is up);
\* it emits nothing when self.sio is None or shell_connected is false. In
\* every case its next step is _close_shell_session(session_id), which
\* removes the entry and starts the teardown of that session, and a reader
\* that has ended has left no entry of its session behind.
NaturalExitReportedWhenConnected ==
    /\ [][\A t \in Readers :
            /\ ReportsNaturalExit(t) =>
                 IF ~(sio # "None" /\ shell_connected)
                 THEN emitted' = emitted /\ pc'[t] = "r_exitclose"
                 ELSE IF conn = "up"
                 THEN emitted' = Append(emitted, ExitEvent(t)) /\ pc'[t] = "r_exitclose"
                 ELSE \/ emitted' = Append(emitted, ExitEvent(t)) /\ pc'[t] = "r_exitclose"
                      \/ emitted' = emitted /\ pc'[t] = "r_finally"
            /\ (/\ pc[t] \in {"r_exitclose", "r_finally"} /\ pc'[t] # pc[t]
                /\ loc[t].pid \in RegPids(shell_sessions)) =>
                  /\ loc[t].pid \notin RegPids(shell_sessions')
                  /\ pc'[t] = "c_closefd"
                  /\ loc'[t].cpid = loc[t].pid]_vars
    /\ [](\A p \in Pids : pc[RT(p)] = "r_done" => p \notin RegPids(shell_sessions))

\* C29 witness: a reader has reaped a child that exited on its own, has
\* emitted shell_client_exit with exit code 0, has torn the session down
\* itself and has ended.
NaturalExitWitness ==
    \E p \in Pids :
        /\ pc[RT(p)] = "r_done"
        /\ proc[p] = "reaped" /\ Count(tdlog[p], "reap") = 0
        /\ hist.popper[p] = "R"
        /\ \E i \in 1..Len(emitted) :
               emitted[i].ev = "shell_client_exit" /\ emitted[i].code = 0

\* C30: the dispatch loop takes its steps in sequence (poll, execute if a
\* command was returned, submit, sleep, loop test, poll again), also in a
\* cycle that raised an exception, and at most one command is executing at
\* any time.
DispatchInSequence ==
    /\ [][\A w \in Pollers :
            /\ (wpc'[w] = "p_poll" /\ wpc[w] # "p_poll") => wpc[w] = "w_check"
            /\ (wpc'[w] = "p_exec" /\ wpc[w] # "p_exec") => wpc[w] = "p_poll"
            /\ (wpc'[w] = "p_submit" /\ wpc[w] # "p_submit") => wpc[w] = "p_exec"
            /\ (wpc'[w] = "w_sleep" /\ wpc[w] # "w_sleep")
                   => wpc[w] \in {"p_poll", "p_exec", "p_submit"}
            /\ (wpc'[w] = "w_check" /\ wpc[w] # "w_check")
                   => wpc[w] \in {"none", "w_sleep"}]_vars
    /\ [](Cardinality({w \in Pollers :
                           wpc[w] = "p_exec" /\ wloc[w].command \in Commands}) <= 1)

\* the worker w appends `what` to its log of commands in this step
Logs(w, what) ==
    /\ Len(whist'.cmdlog[w]) = Len(whist.cmdlog[w]) + 1
    /\ whist'.cmdlog[w][Len(whist'.cmdlog[w])] \in what

\* C31: a worker executes a command, and submits a result, only in a cycle
\* whose poll returned status 200 with has_command and a command object: in a
\* cycle whose poll failed (another status, HTTP 401 or 500, no network, a
\* malformed body, a 'command' that is no object) nothing is executed and
\* nothing is submitted.
CommandOnlyAfterGoodPoll ==
    [][\A w \in Pollers :
         Logs(w, {"exec", "submit_ok", "submit_fail"}) =>
             /\ ~whist.lastfail[w]
             /\ wloc[w].command \in Commands]_vars

\* C31 witness: a worker that has executed a command is in a later cycle
\* whose poll failed, and has reached the sleep of that cycle.
CommandOnlyAfterGoodPollWitness ==
    \E w \in Pollers : Execs(w) > 0 /\ whist.lastfail[w] /\ wpc[w] = "w_sleep"

\* C32: for each worker kind (heartbeat, command polling) at most one thread
\* is executing the worker loop at any time, whatever start and stop calls
\* have been made.
OneLoopPerWorker ==
    \A k \in Kinds : Cardinality({w \in Workers(k) : Alive(w)}) <= 1

\* stop_command_polling has been called once and has returned, one worker
\* was ever started, and no start is under way or has set the flag again
PollingStopped ==
    /\ whist.cleared["command_polling"] = 1
    /\ ~running["command_polling"]
    /\ Cardinality(Started("command_polling")) = 1
    /\ \A c \in Callers : wpc[c] = "idle"

\* C33: once stop_command_polling has returned, and start_command_polling is
\* not called again, no command starts executing and no result is submitted.
NoCommandAfterStop ==
    [][PollingStopped =>
          \A w \in Pollers :
              /\ ~(wpc[w] = "p_poll" /\ wpc'[w] = "p_exec")
              /\ ~(wpc[w] = "p_exec" /\ wpc'[w] = "p_submit")
              /\ ~Logs(w, {"submit_ok", "submit_fail"})]_vars

\* the child that wrote byte b (byte k of pid p is 16 * p + k)
WriterOf(b) == b \div 16

\* C34: a shell_output event tagged with a session id carries no byte
\* written by the child of a session registered under another id, and a terminal
\* receives only input addressed to its own session, also when a descriptor
\* number has been closed and handed out again while a thread still holds it.
SessionsIsolated ==
    /\ \A s \in SessionIds :
         LET out == DecodedOutput(OutputEvents(s)) IN
         \A i \in 1..Len(out) : hist.sessOf[WriterOf(out[i])] \in {s, "none"}
    /\ \A p \in Pids : IsSubseq(ptyin[p], hist.inreq[p])

\* C35: the reader started for a session that has been closed does not tear
\* down a session opened later under the same session_id: whatever entry a
\* reader removes through its exit paths is the entry of its own session.
ReaderClosesOwnSession ==
    [][\A p \in Pids :
         (/\ Count(tdlog[p], "pop") > 0
          /\ pc[RT(p)] \in {"r_loop", "r_exitclose", "r_finally"}
          /\ pc'[RT(p)] = "c_closefd") => loc'[RT(p)].cpid = p]_vars

\* C36: a teardown sends no signal to a process id whose child has been
\* reaped: os.kill(pid, SIGTERM) and os.kill(pid, SIGKILL) are called only
\* for a child whose exit status has not been collected.
NoSignalToReapedPid ==
    [][\A t \in Threads :
         (pc[t] \in {"c_term", "c_kill"} /\ pc'[t] # pc[t])
             => proc[loc[t].cpid] # "reaped"]_vars

\* C37: with the connection up, when the reader of a session emits
\* shell_client_exit for a child that exited on its own, nothing the child
\* wrote is left unread on its terminal: every byte has been read (and
\* relayed as shell_output) before.
NoOutputLostAtExit ==
    [][\A p \in Pids :
         (/\ pc[RT(p)] = "r_exit" /\ loc[RT(p)].pid = p /\ loc[RT(p)].code = 0
          /\ Len(emitted') > Len(emitted) /\ pc'[RT(p)] # "r_exit")
             => ptyout[p] = <<>>]_vars

\* the open that forked child p has emitted shell_client_exit(-1) from its
\* except clause (where no fork fails every open forks, and the number of
\* the call is the pid of its child)
OpenExitSent(p) ==
    \E i \in 1..Len(emitted) :
        emitted[i].ev = "shell_client_exit" /\ emitted[i].call = p

\* a reader has reaped child p and has taken the step that emits
\* shell_client_exit for it (the link being up)
ReaderExitSent(p) ==
    /\ proc[p] = "reaped" /\ Count(tdlog[p], "reap") = 0
    /\ \A t \in Readers : ~(pc[t] = "r_exit" /\ loc[t].pid = p)

ReaderExitEvents ==
    SelectSeq(emitted, LAMBDA e : e.ev = "shell_client_exit" /\ e.call = 0)

\* C38: for each opened session at most one shell_client_exit is emitted
\* (the readers' exit events are one per reaped child, and no session gets
\* both the open's and a reader's exit event), and no reader emits
\* shell_output for a session whose shell_client_exit has been emitted.
ExitOnceThenSilent ==
    /\ [](/\ Len(ReaderExitEvents) = Cardinality({p \in Pids : ReaderExitSent(p)})
          /\ \A p \in Pids : ~(OpenExitSent(p) /\ ReaderExitSent(p)))
    /\ [][\A t \in Readers :
            (pc[t] = "r_emit" /\ Len(emitted') > Len(emitted)) =>
                /\ ~ReaderExitSent(loc[t].pid)
                /\ ~OpenExitSent(loc[t].pid)]_vars

====
